---- MODULE Spec2Model ----
(***************************************************************************)
(* A model of aw, the DNS failover controller (src/aw.go, src/cf.go).      *)
(*                                                                         *)
(* One watch cycle (config.watch) resolves the domain, probes every node,  *)
(* and then runs up to three guarded blocks, each of which calls the       *)
(* record synchronizer (cfConfig.moveRecords / moveRecordsIPv6) against    *)
(* the CloudFlare zone.  The zone, the resolver and the probed nodes are   *)
(* the environment; their answers are drawn from small sets.               *)
(*                                                                         *)
(* Time is counted in minutes.  A zone record is [content, age], age being *)
(* the minutes since its modified_on, counted up to the 10 minutes the     *)
(* code compares time.Since(modified) with.  The zone keeps, per record    *)
(* type and name, the list of records the API would return for that name   *)
(* (loadRecords reads Result[0], and the id it keeps is that record's).    *)
(***************************************************************************)
EXTENDS Integers, Sequences, FiniteSets, TLC

VARIABLES
    store,  \* the zone: store[type][name] = list of records of that type and name
    dns,    \* what the resolver currently answers for the domain: [v4, v6]
    pc,     \* position of main/watch: "idle", "adjust6", "move4", "move6", "ret"
    cyc,    \* locals of the running watch() call, and what its calls did; the
            \* specifications of single functions keep their arguments here
    since,  \* history: since[type] = minutes (up to Window) since aw last changed
            \* the content published by the records of that type
    faults  \* history: the API round trips that went wrong so far

vars == <<store, dns, pc, cyc, since, faults>>

-----------------------------------------------------------------------------
(* Bounds of the model *)

Timeout == 3       \* cfg.timeout, in latency units; a healthy probe reports 1..Timeout
MaxFaults == 1     \* API round trips that go wrong in one run

TickSteps == {5}   \* minutes the clock advances at a time

-----------------------------------------------------------------------------
(* Addresses: net.ParseIP and net.IP.Equal *)

NilIP == <<>>

\* net.ParseIP on the address strings of the model: the 16-byte form as eight
\* 16-bit groups (an IPv4 address parses to its IPv4-mapped form), or nil.
ParseIP(s) ==
    CASE s = "10.0.0.11"        -> <<0, 0, 0, 0, 0, 65535, 2560, 11>>
      [] s = "::ffff:10.0.0.11" -> <<0, 0, 0, 0, 0, 65535, 2560, 11>>
      [] s = "10.0.0.12"        -> <<0, 0, 0, 0, 0, 65535, 2560, 12>>
      [] s = "10.0.0.13"        -> <<0, 0, 0, 0, 0, 65535, 2560, 13>>
      [] s = "10.0.0.99"        -> <<0, 0, 0, 0, 0, 65535, 2560, 99>>
      [] s = "1.2.3.4"          -> <<0, 0, 0, 0, 0, 65535, 258, 772>>
      [] s = "2001:db8::1"      -> <<8193, 3512, 0, 0, 0, 0, 0, 1>>
      [] s = "2001:db8:0::2"    -> <<8193, 3512, 0, 0, 0, 0, 0, 2>>
      [] s = "2001:db8::2"      -> <<8193, 3512, 0, 0, 0, 0, 0, 2>>
      [] OTHER                  -> NilIP

\* net.IP.String on the addresses of the model (the canonical text form).
IPString(ip) ==
    CASE ip = <<0, 0, 0, 0, 0, 65535, 2560, 11>> -> "10.0.0.11"
      [] ip = <<0, 0, 0, 0, 0, 65535, 2560, 12>> -> "10.0.0.12"
      [] ip = <<0, 0, 0, 0, 0, 65535, 2560, 13>> -> "10.0.0.13"
      [] ip = <<0, 0, 0, 0, 0, 65535, 2560, 99>> -> "10.0.0.99"
      [] ip = <<0, 0, 0, 0, 0, 65535, 258, 772>>   -> "1.2.3.4"
      [] ip = <<8193, 3512, 0, 0, 0, 0, 0, 1>>   -> "2001:db8::1"
      [] ip = <<8193, 3512, 0, 0, 0, 0, 0, 2>>   -> "2001:db8::2"
      [] OTHER                                   -> ""

\* net.IP.Equal: both as 16 bytes; nil equals nothing.
IPEqual(x, y) == x # NilIP /\ y # NilIP /\ x = y

\* Mutant: the two strings are compared as text.
isAddrEqual_Textual(left, right) == left = right

isAddrEqual(left, right) ==
    LET leftIP  == ParseIP(left)
        rightIP == ParseIP(right)
    IN  IF rightIP = NilIP THEN leftIP = NilIP ELSE IPEqual(rightIP, leftIP)

-----------------------------------------------------------------------------
(* Configuration: aw.ini of the README's IPv6 sample *)

Nodes ==
    << [name |-> "nyc01", ip |-> "10.0.0.11", ipv6 |-> "2001:db8::1"],
       [name |-> "nyc02", ip |-> "10.0.0.12", ipv6 |-> "2001:db8:0::2"],
       [name |-> "sea01", ip |-> "10.0.0.13", ipv6 |-> ""] >>

Names == <<"@", "www">>

Types == {"A", "AAAA"}

Window == 10       \* 10*time.Minute

-----------------------------------------------------------------------------
(* The zone as the CloudFlare API serves it *)

NoRec == [content |-> "", age |-> Window]      \* Go's zero cfRecord: modified long ago

\* What one API round trip can do besides succeed (cfAccount.request):
\*   "fail"  the request is refused or never arrives: non-200, transport error;
\*   "lost"  the zone applies the request, the response cannot be read or decoded;
\*   "echo"  200, and the result carries the record as it was, not as requested.
Modes == {"fail", "lost", "echo"}

\* The environment's choices during one call of moveRecords / moveRecordsIPv6:
\* the order in which Go ranges over the records map, and the one round trip that
\* goes wrong, if any (the call returns at its first error):
\*   0 none, 1 loadZone, 1+i the GET of Names[i], 1+N+j the j-th write.
N == Len(Names)

Orders == {q \in [1..N -> 1..N] : \A a, b \in 1..N : a # b => q[a] # q[b]}

InOrder == [j \in 1..N |-> j]

\* The range order shows only in a call whose write goes wrong (which records were
\* written before it); elsewhere one order stands for all.
OraclesOf(modes) ==
    {[order |-> q, failAt |-> k, mode |-> m] :
        q \in {InOrder}, k \in 0..(1 + N), m \in {"fail"}}
    \cup
    {[order |-> q, failAt |-> k, mode |-> m] :
        q \in Orders, k \in (2 + N)..(1 + 2 * N), m \in modes}

Oracles == OraclesOf(Modes)

\* The content the zone keeps and echoes for a requested address: its canonical text.
Stored(ip) == IPString(ParseIP(ip))

\* loadZone (cf.go:185-200): the zone id is looked up on every call.
loadZone(o) == IF o.failAt = 1 THEN "transport" ELSE ""

\* loadRecords (cf.go:79-112), from name i on; recs holds the names read so far.
RECURSIVE loadFrom(_, _, _, _, _)
loadFrom(st, type, i, o, recs) ==
    IF i > N THEN [err |-> "", records |-> recs]
    ELSE IF o.failAt = 1 + i THEN [err |-> "transport", records |-> recs]
    ELSE IF st[type][Names[i]] = <<>> THEN [err |-> "notfound", records |-> recs]
    ELSE loadFrom(st, type, i + 1, o,
                  [recs EXCEPT ![Names[i]] = Head(st[type][Names[i]])])

loadRecords(st, type, o) ==
    loadFrom(st, type, 1, o, [n \in {Names[i] : i \in 1..N} |-> NoRec])

\* The outcome of the j-th write of a call.
WriteOutcome(o, j) == IF o.failAt = 1 + N + j THEN o.mode ELSE "ok"

\* Mutant: the echoed content of an update is not compared with the request.
SetStep_Unverified(r, ip, type, name, out) ==
    LET old   == Head(r.store[type][name])
        new   == [content |-> Stored(ip), age |-> 0]
        kept  == IF out \in {"ok", "lost"}
                 THEN [r.store EXCEPT ![type][name] = <<new>> \o Tail(@)]
                 ELSE r.store
        echo  == IF out = "echo" THEN old.content ELSE Stored(ip)
        err   == IF out \in {"fail", "lost"} THEN "transport" ELSE ""
    IN  [store  |-> kept,
         err    |-> err,
         detail |-> "",
         ops    |-> Append(r.ops, [op |-> "update", name |-> name, out |-> out,
                                   echo |-> IF err = "transport" THEN "" ELSE echo,
                                   was |-> old])]

\* setRecords (cf.go:115-141), from the j-th record of the map's range order on.
\* r is [store, err, detail, ops]; the PUT addresses the loaded record by its id.
SetStep(r, ip, type, name, out) ==
    LET old   == Head(r.store[type][name])
        new   == [content |-> Stored(ip), age |-> 0]
        kept  == IF out \in {"ok", "lost"}
                 THEN [r.store EXCEPT ![type][name] = <<new>> \o Tail(@)]
                 ELSE r.store
        echo  == IF out = "echo" THEN old.content ELSE Stored(ip)
        err   == IF out \in {"fail", "lost"} THEN "transport"
                 ELSE IF ~isAddrEqual(echo, ip) THEN "verify"
                 ELSE ""
    IN  [store  |-> kept,
         err    |-> err,
         detail |-> IF err = "verify" THEN echo ELSE "",
         ops    |-> Append(r.ops, [op |-> "update", name |-> name, out |-> out,
                                   echo |-> IF err = "transport" THEN "" ELSE echo,
                                   was |-> old])]

\* Mutant: the loop goes on after an error and returns what the last record gave.
RECURSIVE setFrom_Masking(_, _, _, _, _)
setFrom_Masking(r, ip, type, o, j) ==
    IF j > N THEN r
    ELSE setFrom_Masking(SetStep(r, ip, type, Names[o.order[j]], WriteOutcome(o, j)),
                         ip, type, o, j + 1)

RECURSIVE setFrom(_, _, _, _, _)
setFrom(r, ip, type, o, j) ==
    IF j > N \/ r.err # "" THEN r
    ELSE setFrom(SetStep(r, ip, type, Names[o.order[j]], WriteOutcome(o, j)),
                 ip, type, o, j + 1)

setRecords(st, ip, type, o) ==
    setFrom([store |-> st, err |-> "", detail |-> "", ops |-> <<>>], ip, type, o, 1)

\* createRecords (cf.go:144-170), from Names[j] on.  The zone refuses (as a failed
\* request) a record identical to one it holds: same type, name and content.
CreateStep(r, ip, type, name, wanted) ==
    LET held  == {r.store[type][name][k].content : k \in 1..Len(r.store[type][name])}
        out   == IF Stored(ip) \in held THEN "fail" ELSE wanted
        new   == [content |-> Stored(ip), age |-> 0]
        kept  == IF out \in {"ok", "lost"}
                 THEN [r.store EXCEPT ![type][name] = Append(@, new)]
                 ELSE r.store
        echo  == IF out = "echo" THEN "" ELSE Stored(ip)
        err   == IF out \in {"fail", "lost"} THEN "transport"
                 ELSE IF ~isAddrEqual(echo, ip) THEN "verify"
                 ELSE ""
    IN  [store  |-> kept,
         err    |-> err,
         detail |-> IF err = "verify" THEN echo ELSE "",
         ops    |-> Append(r.ops, [op |-> "create", name |-> name, out |-> out,
                                   echo |-> IF err = "transport" THEN "" ELSE echo])]

RECURSIVE createFrom(_, _, _, _, _)
createFrom(r, ip, type, o, j) ==
    IF j > N \/ r.err # "" THEN r
    ELSE createFrom(CreateStep(r, ip, type, Names[j], WriteOutcome(o, j)),
                    ip, type, o, j + 1)

createRecords(st, ip, type, o) ==
    createFrom([store |-> st, err |-> "", detail |-> "", ops |-> <<>>], ip, type, o, 1)

\* Mutant: the delete of a record is answered, the record stays.
DeleteStep_Kept(r, type, name, wanted) ==
    LET out   == IF wanted = "echo" THEN "ok" ELSE wanted
        old   == Head(r.store[type][name])
        err   == IF out \in {"fail", "lost"} THEN "transport" ELSE ""
    IN  [store  |-> r.store,
         err    |-> err,
         detail |-> "",
         ops    |-> Append(r.ops, [op |-> "delete", name |-> name, out |-> out,
                                   echo |-> "", was |-> old])]

\* deleteRecords (cf.go:173-182): the response body is not looked at.
DeleteStep(r, type, name, wanted) ==
    LET out   == IF wanted = "echo" THEN "ok" ELSE wanted
        old   == Head(r.store[type][name])
        kept  == IF out \in {"ok", "lost"}
                 THEN [r.store EXCEPT ![type][name] = Tail(@)]
                 ELSE r.store
        err   == IF out \in {"fail", "lost"} THEN "transport" ELSE ""
    IN  [store  |-> kept,
         err    |-> err,
         detail |-> "",
         ops    |-> Append(r.ops, [op |-> "delete", name |-> name, out |-> out,
                                   echo |-> "", was |-> old])]

RECURSIVE deleteFrom(_, _, _, _)
deleteFrom(r, type, o, j) ==
    IF j > N \/ r.err # "" THEN r
    ELSE deleteFrom(DeleteStep(r, type, Names[o.order[j]], WriteOutcome(o, j)),
                    type, o, j + 1)

deleteRecords(st, type, o) ==
    deleteFrom([store |-> st, err |-> "", detail |-> "", ops |-> <<>>], type, o, 1)

-----------------------------------------------------------------------------
(* The record synchronizer.  Each operator yields [store, call]: the zone after the
   call and what the call did: its arguments, what loadRecords found
   ("none" when it was not reached or failed), the anchor record as loaded, the
   writes issued, and the error returned ("" for nil). *)

Call(type, sourceIP, targetIP, loaded, anchor, err, detail, ops) ==
    [type |-> type, source |-> sourceIP, target |-> targetIP,
     loaded |-> loaded, anchor |-> anchor, err |-> err, detail |-> detail, ops |-> ops]

\* Mutants of the cooldown test: no cooldown at all; a cooldown that ends at once.
UpdatedRecently_Never(anchor) == FALSE

UpdatedRecently_JustNow(anchor) == anchor.age = 0

\* The cooldown test of cf.go:225 and cf.go:251.
UpdatedRecently(anchor) == anchor.age < Window

\* Mutant: the stated source is not compared with the anchor record.
StatedElsewhere_Never(anchor, sourceIP) == FALSE

\* The source test of cf.go:222.
StatedElsewhere(anchor, sourceIP) == sourceIP # "" /\ ~isAddrEqual(anchor.content, sourceIP)

\* Mutant: A records that are not found are created, as the AAAA records are.
moveRecords_CreatesMissing(st, sourceIP, targetIP, o) ==
    LET ld  == loadRecords(st, "A", o)
        mk  == createRecords(st, targetIP, "A", o)
        set == setRecords(st, targetIP, "A", o)
        C(loaded, anchor, err, detail, ops) ==
            Call("A", sourceIP, targetIP, loaded, anchor, err, detail, ops)
    IN  IF loadZone(o) # ""
        THEN [store |-> st, call |-> C("none", NoRec, loadZone(o), "", <<>>)]
        ELSE IF ld.err = "notfound"
        THEN [store |-> mk.store, call |-> C("notfound", NoRec, mk.err, mk.detail, mk.ops)]
        ELSE IF ld.err # ""
        THEN [store |-> st, call |-> C("none", NoRec, ld.err, "", <<>>)]
        ELSE IF StatedElsewhere(ld.records["@"], sourceIP)
        THEN [store |-> st,
              call  |-> C("found", ld.records["@"], "stated", ld.records["@"].content, <<>>)]
        ELSE IF UpdatedRecently(ld.records["@"])
        THEN [store |-> st, call |-> C("found", ld.records["@"], "recent", "", <<>>)]
        ELSE [store |-> set.store,
              call  |-> C("found", ld.records["@"], set.err, set.detail, set.ops)]

\* Mutant: the cooldown test looks at the record of every name.
moveRecords_AnyRecent(st, sourceIP, targetIP, o) ==
    LET ld  == loadRecords(st, "A", o)
        set == setRecords(st, targetIP, "A", o)
        C(loaded, anchor, err, detail, ops) ==
            Call("A", sourceIP, targetIP, loaded, anchor, err, detail, ops)
    IN  IF loadZone(o) # ""
        THEN [store |-> st, call |-> C("none", NoRec, loadZone(o), "", <<>>)]
        ELSE IF ld.err # ""
        THEN [store |-> st, call |-> C("none", NoRec, ld.err, "", <<>>)]
        ELSE IF StatedElsewhere(ld.records["@"], sourceIP)
        THEN [store |-> st,
              call  |-> C("found", ld.records["@"], "stated", ld.records["@"].content, <<>>)]
        ELSE IF \E n \in DOMAIN ld.records : UpdatedRecently(ld.records[n])
        THEN [store |-> st, call |-> C("found", ld.records["@"], "recent", "", <<>>)]
        ELSE [store |-> set.store,
              call  |-> C("found", ld.records["@"], set.err, set.detail, set.ops)]

\* cfConfig.moveRecords (cf.go:213-229)
moveRecords(st, sourceIP, targetIP, o) ==
    LET ld  == loadRecords(st, "A", o)
        set == setRecords(st, targetIP, "A", o)
        C(loaded, anchor, err, detail, ops) ==
            Call("A", sourceIP, targetIP, loaded, anchor, err, detail, ops)
    IN  IF loadZone(o) # ""
        THEN [store |-> st, call |-> C("none", NoRec, loadZone(o), "", <<>>)]
        ELSE IF ld.err # ""
        THEN [store |-> st, call |-> C("none", NoRec, ld.err, "", <<>>)]
        ELSE IF StatedElsewhere(ld.records["@"], sourceIP)
        THEN [store |-> st,
              call  |-> C("found", ld.records["@"], "stated", ld.records["@"].content, <<>>)]
        ELSE IF UpdatedRecently(ld.records["@"])
        THEN [store |-> st, call |-> C("found", ld.records["@"], "recent", "", <<>>)]
        ELSE [store |-> set.store,
              call  |-> C("found", ld.records["@"], set.err, set.detail, set.ops)]

\* Mutant: the cooldown test guards the delete as it guards the update.
moveRecordsIPv6_GuardedDelete(st, sourceIPv6, targetIPv6, o) ==
    LET ld  == loadRecords(st, "AAAA", o)
        mk  == createRecords(st, targetIPv6, "AAAA", o)
        set == setRecords(st, targetIPv6, "AAAA", o)
        del == deleteRecords(st, "AAAA", o)
        C(loaded, anchor, err, detail, ops) ==
            Call("AAAA", sourceIPv6, targetIPv6, loaded, anchor, err, detail, ops)
    IN  IF loadZone(o) # ""
        THEN [store |-> st, call |-> C("none", NoRec, loadZone(o), "", <<>>)]
        ELSE IF ld.err # "" /\ ld.err # "notfound"
        THEN [store |-> st, call |-> C("none", NoRec, ld.err, "", <<>>)]
        ELSE IF ld.err = "notfound"
        THEN IF targetIPv6 # ""
             THEN [store |-> mk.store,
                   call  |-> C("notfound", NoRec, mk.err, mk.detail, mk.ops)]
             ELSE [store |-> st, call |-> C("notfound", NoRec, "", "", <<>>)]
        ELSE IF UpdatedRecently(ld.records["@"])
        THEN [store |-> st, call |-> C("found", ld.records["@"], "recent", "", <<>>)]
        ELSE IF targetIPv6 # ""
        THEN [store |-> set.store,
              call  |-> C("found", ld.records["@"], set.err, set.detail, set.ops)]
        ELSE [store |-> del.store,
              call  |-> C("found", ld.records["@"], del.err, del.detail, del.ops)]

\* cfConfig.moveRecordsIPv6 (cf.go:232-260)
moveRecordsIPv6(st, sourceIPv6, targetIPv6, o) ==
    LET ld  == loadRecords(st, "AAAA", o)
        mk  == createRecords(st, targetIPv6, "AAAA", o)
        set == setRecords(st, targetIPv6, "AAAA", o)
        del == deleteRecords(st, "AAAA", o)
        C(loaded, anchor, err, detail, ops) ==
            Call("AAAA", sourceIPv6, targetIPv6, loaded, anchor, err, detail, ops)
    IN  IF loadZone(o) # ""
        THEN [store |-> st, call |-> C("none", NoRec, loadZone(o), "", <<>>)]
        ELSE IF ld.err # "" /\ ld.err # "notfound"
        THEN [store |-> st, call |-> C("none", NoRec, ld.err, "", <<>>)]
        ELSE IF ld.err = "notfound"
        THEN IF targetIPv6 # ""
             THEN [store |-> mk.store,
                   call  |-> C("notfound", NoRec, mk.err, mk.detail, mk.ops)]
             ELSE [store |-> st, call |-> C("notfound", NoRec, "", "", <<>>)]
        ELSE IF targetIPv6 # ""
        THEN IF UpdatedRecently(ld.records["@"])
             THEN [store |-> st, call |-> C("found", ld.records["@"], "recent", "", <<>>)]
             ELSE [store |-> set.store,
                   call  |-> C("found", ld.records["@"], set.err, set.detail, set.ops)]
        ELSE [store |-> del.store,
              call  |-> C("found", ld.records["@"], del.err, del.detail, del.ops)]

-----------------------------------------------------------------------------
(* The decision of watch(): the loop over the nodes (aw.go:371-411) *)

\* What checkNode can return: (false, ...) or (true, elapsed), elapsed in 1..Timeout
\* (the elapsed time is taken from before the client's own timer starts to after
\* the response is in, so it can reach cfg.timeout).
ProbeResults ==
    {[ok |-> FALSE, latency |-> 0]} \cup {[ok |-> TRUE, latency |-> l] : l \in 1..Timeout}

Locals0 ==
    [selectedIPv6 |-> "", selectedNode |-> "",
     minIP |-> "", minIPv6 |-> "", minNode |-> "", minTimeout |-> Timeout]

\* Mutant: a node as fast as the fastest so far replaces it (<= for <).
LoopBody_LastWins(acc, n, p, actualIP) ==
    LET a1 == IF isAddrEqual(n.ip, actualIP) /\ p.ok
              THEN [acc EXCEPT !.selectedIPv6 = n.ipv6, !.selectedNode = n.name]
              ELSE acc
    IN  IF p.ok /\ p.latency <= a1.minTimeout
        THEN [a1 EXCEPT !.minIP = n.ip, !.minIPv6 = n.ipv6, !.minNode = n.name,
                        !.minTimeout = p.latency]
        ELSE a1

\* One pass of the loop body for node n with the probe result p.
LoopBody(acc, n, p, actualIP) ==
    LET a1 == IF isAddrEqual(n.ip, actualIP) /\ p.ok
              THEN [acc EXCEPT !.selectedIPv6 = n.ipv6, !.selectedNode = n.name]
              ELSE acc
    IN  IF p.ok /\ p.latency < a1.minTimeout
        THEN [a1 EXCEPT !.minIP = n.ip, !.minIPv6 = n.ipv6, !.minNode = n.name,
                        !.minTimeout = p.latency]
        ELSE a1

RECURSIVE Loop(_, _, _, _)
Loop(acc, i, probes, actualIP) ==
    IF i > Len(Nodes) THEN acc
    ELSE Loop(LoopBody(acc, Nodes[i], probes[i], actualIP), i + 1, probes, actualIP)

-----------------------------------------------------------------------------
(* State *)

NoCycle ==
    [lookup |-> "", actualIP |-> "", actualIPv6 |-> "", probes |-> <<>>,
     selectedIPv6 |-> "", selectedNode |-> "",
     minIP |-> "", minIPv6 |-> "", minNode |-> "", calls |-> <<>>,
     pending |-> FALSE]

\* What a lookup of the domain returns once the zone's records have propagated:
\* the first address of the family, as net.IP.String prints it (aw.go:261-281).
Published(st, type) ==
    IF st[type]["@"] = <<>> THEN "" ELSE IPString(ParseIP(Head(st[type]["@"]).content))

NameSet == {Names[i] : i \in 1..N}

ZoneOf(a, aaaa) ==
    [type \in Types |-> [n \in NameSet |-> IF type = "A" THEN a ELSE aaaa]]

\* The README's zone: every name points to the primary server, nyc01, and was set
\* long ago; the AAAA records are made by aw itself.
Init ==
    /\ store = ZoneOf(<<[content |-> "10.0.0.11", age |-> Window]>>, <<>>)
    /\ dns = [v4 |-> Published(store, "A"), v6 |-> Published(store, "AAAA")]
    /\ pc = "idle"
    /\ cyc = NoCycle
    /\ since = [type \in Types |-> Window]
    /\ faults = 0

-----------------------------------------------------------------------------
(* Environment *)

Older(x, d) == IF x + d > Window THEN Window ELSE x + d

Aged(recs, d) == [k \in 1..Len(recs) |-> [recs[k] EXCEPT !.age = Older(@, d)]]

\* Time passes, between cycles: a cycle is short beside a step of the clock.
Tick ==
    /\ pc = "idle"
    /\ \E d \in TickSteps :
        /\ store' = [type \in Types |-> [n \in NameSet |-> Aged(store[type][n], d)]]
        /\ since' = [type \in Types |-> Older(since[type], d)]
    /\ UNCHANGED <<dns, pc, cyc, faults>>

\* The resolver picks up the records of one type as the zone now holds them
\* (watch() asks the resolver at its start only).
Propagate(type) ==
    /\ pc = "idle"
    /\ dns' = IF type = "A" THEN [dns EXCEPT !.v4 = Published(store, "A")]
                            ELSE [dns EXCEPT !.v6 = Published(store, "AAAA")]
    /\ dns' # dns
    /\ UNCHANGED <<store, pc, cyc, since, faults>>

-----------------------------------------------------------------------------
(* main and watch (aw.go:362-448).  Each step takes the answers of its environment
   from a set: the probe results P, the API oracles O. *)

\* Mutant: the IPv6 addresses are compared as text.
AdjustsIPv6_Textual(c) == c.selectedNode # "" /\ c.selectedIPv6 # c.actualIPv6

\* The guards of the three blocks of watch() on its locals c.
AdjustsIPv6(c) == c.selectedNode # "" /\ ~isAddrEqual(c.selectedIPv6, c.actualIPv6)

\* Mutant: the switch is made whenever the fastest node is not the acting one.
SwitchesIPv4_ToFastest(c) == c.minIP # "" /\ c.minNode # c.selectedNode

SwitchesIPv4(c) == c.selectedNode = "" /\ c.minIP # ""
\* Mutant: the IPv6 of the fastest node is set also while a node is acting.
SwitchesIPv6_Always(c) == ~isAddrEqual(c.minIPv6, c.actualIPv6)

SwitchesIPv6(c) == c.selectedNode = "" /\ ~isAddrEqual(c.minIPv6, c.actualIPv6)

\* main's loop calls watch(): the two lookups, the loop over the nodes, the log line
\* (aw.go:362-412).  A failed IPv4 lookup ends the cycle; a failed IPv6 lookup counts
\* as no IPv6 address.
\* Mutant: main starts watch() as a goroutine and is back at its ticker at once.
InWatch_Spawned == FALSE

\* main is inside its call of watch() (aw.go:444, 446): the call is synchronous.
InWatch == pc # "idle"

watchFailed ==
    /\ ~InWatch
    /\ cyc' = [NoCycle EXCEPT !.lookup = "failed"]
    /\ pc' = "ret"
    /\ UNCHANGED <<store, dns, since, faults>>

\* B: the batches of probe results, V: whether the IPv6 lookup may succeed, fail.
watchProbe(B, V) ==
    /\ ~InWatch
    /\ \E v6ok \in V, probes \in B :
            LET actualIP   == dns.v4
                actualIPv6 == IF v6ok THEN dns.v6 ELSE ""
                l          == Loop(Locals0, 1, probes, actualIP)
            IN  /\ cyc' = [lookup |-> IF v6ok THEN "ok" ELSE "ipv6 failed",
                           actualIP |-> actualIP,
                           actualIPv6 |-> actualIPv6, probes |-> probes,
                           selectedIPv6 |-> l.selectedIPv6,
                           selectedNode |-> l.selectedNode,
                           minIP |-> l.minIP, minIPv6 |-> l.minIPv6,
                           minNode |-> l.minNode, calls |-> <<>>,
                           pending |-> FALSE]
                /\ pc' = "adjust6"
    /\ UNCHANGED <<store, dns, since, faults>>

watchBegin(P) == watchFailed \/ watchProbe([1..Len(Nodes) -> P], BOOLEAN)

\* The contents the records of one type publish, name by name.
Contents(st, type) ==
    [n \in NameSet |-> [k \in 1..Len(st[type][n]) |-> st[type][n][k].content]]

\* The oracles the environment may still pick from O.
Allowed(O) == {o \in O : o.failAt = 0 \/ faults < MaxFaults}

\* The call a block of watch() makes: the zone changes, the call is noted.
Does(r, o) ==
    /\ faults' = IF o.failAt = 0 THEN faults ELSE faults + 1
    /\ store' = r.store
    /\ cyc' = [cyc EXCEPT !.calls = Append(@, r.call)]
    /\ since' = [type \in Types |->
                    IF Contents(r.store, type) # Contents(store, type)
                    THEN 0 ELSE since[type]]

\* aw.go:413-419: IPv6 adjustment for an acting node.
adjustIPv6(O) ==
    /\ pc = "adjust6"
    /\ IF AdjustsIPv6(cyc)
       THEN \E o \in Allowed(O) :
                Does(moveRecordsIPv6(store, cyc.actualIPv6, cyc.selectedIPv6, o), o)
       ELSE UNCHANGED <<store, cyc, since, faults>>
    /\ pc' = "move4"
    /\ UNCHANGED dns

\* aw.go:420-426: acting node failure, selection of the fastest node.
switchIPv4(O) ==
    /\ pc = "move4"
    /\ IF SwitchesIPv4(cyc)
       THEN \E o \in Allowed(O) :
                Does(moveRecords(store, cyc.actualIP, cyc.minIP, o), o)
       ELSE UNCHANGED <<store, cyc, since, faults>>
    /\ pc' = "move6"
    /\ UNCHANGED dns

\* aw.go:427-433: acting node failure, IPv6 of the fastest node.
switchIPv6(O) ==
    /\ pc = "move6"
    /\ IF SwitchesIPv6(cyc)
       THEN \E o \in Allowed(O) :
                Does(moveRecordsIPv6(store, cyc.actualIPv6, cyc.minIPv6, o), o)
       ELSE UNCHANGED <<store, cyc, since, faults>>
    /\ pc' = "ret"
    /\ UNCHANGED dns

\* watch() returns to main's loop, which waits for the next tick (aw.go:434, 445).
watchReturn(c) ==
    /\ pc = "ret"
    /\ pc' = "idle"
    /\ cyc' = c
    /\ UNCHANGED <<store, dns, since, faults>>

WatchReturn == watchReturn(NoCycle)

-----------------------------------------------------------------------------
(* The program over time: cycles at any interval, the clock, the resolver, an API
   that fails in every way it can.  A healthy node answers at once. *)

QuickProbes == {p \in ProbeResults : p.latency <= 1}

WatchBegin == watchBegin(QuickProbes)
AdjustIPv6 == adjustIPv6(Oracles)
SwitchIPv4 == switchIPv4(Oracles)
SwitchIPv6 == switchIPv6(Oracles)

Next ==
    \/ Tick
    \/ \E type \in Types : Propagate(type)
    \/ WatchBegin
    \/ AdjustIPv6
    \/ SwitchIPv4
    \/ SwitchIPv6
    \/ WatchReturn

Spec == Init /\ [][Next]_vars

-----------------------------------------------------------------------------
(* The decision of one cycle, for every advertised state and every batch of probe
   results; the API answers every call.  The zone may point to a server that is no
   node (10.0.0.99) or hold no record of a type; the resolver keeps its answer. *)

Rec(content) == <<[content |-> content, age |-> Window]>>

InitDecide ==
    /\ \E a \in {<<>>, Rec("10.0.0.11"), Rec("10.0.0.12"), Rec("10.0.0.13"),
                  Rec("10.0.0.99")},
          aaaa \in {<<>>, Rec("2001:db8::1"), Rec("2001:db8::2")} :
          store = ZoneOf(a, aaaa)
    /\ dns = [v4 |-> Published(store, "A"), v6 |-> Published(store, "AAAA")]
    /\ pc = "idle"
    /\ cyc = NoCycle
    /\ since = [type \in Types |-> Window]
    /\ faults = 0

NoFault == {o \in Oracles : o.failAt = 0}

NextDecide ==
    \/ watchBegin(ProbeResults)
    \/ adjustIPv6(NoFault)
    \/ switchIPv4(NoFault)
    \/ switchIPv6(NoFault)
    \/ WatchReturn

SpecDecide == InitDecide /\ [][NextDecide]_vars

-----------------------------------------------------------------------------
(* The record synchronizer by itself: moveRecords and moveRecordsIPv6 called one
   after the other, with any node address as target, at any distance in time; the
   API answers every call.  The zone has AAAA records for all names, for none, or
   for some only, as a create that failed midway leaves it.  cyc.calls keeps the
   calls made so far, MaxCalls at most. *)

MaxCalls == 3

TargetsIPv4 == {Nodes[i].ip : i \in 1..Len(Nodes)}
TargetsIPv6 == {Nodes[i].ipv6 : i \in 1..Len(Nodes)}

InitReconcile ==
    /\ \E aaaa \in [NameSet -> {<<>>, Rec("2001:db8::1")}] :
        store = [type \in Types |->
                    [n \in NameSet |-> IF type = "A" THEN Rec("10.0.0.11") ELSE aaaa[n]]]
    /\ dns = [v4 |-> Published(store, "A"), v6 |-> Published(store, "AAAA")]
    /\ pc = "idle"
    /\ cyc = NoCycle
    /\ since = [type \in Types |-> Window]
    /\ faults = 0

ReconcileIPv4 ==
    /\ Len(cyc.calls) < MaxCalls
    /\ \E sourceIP \in {"", dns.v4}, targetIP \in TargetsIPv4, o \in NoFault :
        Does(moveRecords(store, sourceIP, targetIP, o), o)
    /\ UNCHANGED <<dns, pc>>

ReconcileIPv6 ==
    /\ Len(cyc.calls) < MaxCalls
    /\ \E targetIPv6 \in TargetsIPv6, o \in NoFault :
        Does(moveRecordsIPv6(store, dns.v6, targetIPv6, o), o)
    /\ UNCHANGED <<dns, pc>>

NextReconcile ==
    \/ Tick
    \/ ReconcileIPv4
    \/ ReconcileIPv6

SpecReconcile == InitReconcile /\ [][NextReconcile]_vars

-----------------------------------------------------------------------------
(* Failover with the health of the nodes standing still: nyc01, which the domain
   points to, is down, another node is up; every probe of a cycle gives what the
   one before gave, so the batch is kept in cyc.probes between the cycles.  The
   lookups and the API answer every call; the A records may have been changed a
   moment ago.  Cycles go on (main's ticker), and between cycles, again and again,
   the clock moves on and the resolver takes up what the zone holds: the model
   lets both move between cycles only, hence strong fairness for them. *)

SteadyBatches ==
    {b \in [1..Len(Nodes) -> ProbeResults] :
        ~b[1].ok /\ \E i \in 2..Len(Nodes) : b[i].ok}

InitLive ==
    /\ \E age \in {0, Window}, aaaa \in {<<>>, Rec("2001:db8::1")} :
        store = ZoneOf(<<[content |-> "10.0.0.11", age |-> age]>>, aaaa)
    /\ dns = [v4 |-> Published(store, "A"), v6 |-> Published(store, "AAAA")]
    /\ pc = "idle"
    /\ \E b \in SteadyBatches : cyc = [NoCycle EXCEPT !.probes = b]
    /\ since = [type \in Types |-> Window]
    /\ faults = 0

WatchSteady == watchProbe({cyc.probes}, {TRUE})
WatchReturnSteady == watchReturn([NoCycle EXCEPT !.probes = cyc.probes])

NextLive ==
    \/ Tick
    \/ \E type \in Types : Propagate(type)
    \/ WatchSteady
    \/ adjustIPv6(NoFault)
    \/ switchIPv4(NoFault)
    \/ switchIPv6(NoFault)
    \/ WatchReturnSteady

SpecLive ==
    /\ InitLive /\ [][NextLive]_vars
    /\ SF_vars(Tick)
    /\ \A type \in Types : SF_vars(Propagate(type))
    /\ WF_vars(WatchSteady)
    /\ WF_vars(adjustIPv6(NoFault))
    /\ WF_vars(switchIPv4(NoFault))
    /\ WF_vars(switchIPv6(NoFault))
    /\ WF_vars(WatchReturnSteady)

-----------------------------------------------------------------------------
(* Recovery after a write that failed part-way: the health of the nodes stands
   still as above, and up to MaxFaults API calls fail as in Spec, so that a
   setRecords may stop after the first name; every call after the last failure
   is answered.  Cycles, the clock and the resolver go on as above. *)

NextRecover ==
    \/ Tick
    \/ \E type \in Types : Propagate(type)
    \/ WatchSteady
    \/ AdjustIPv6
    \/ SwitchIPv4
    \/ SwitchIPv6
    \/ WatchReturnSteady

\* main's loop starts cycle after cycle and watch() runs to its end: the place
\* of the program moves on.  Every step that moves pc is a step of a cycle, and
\* wherever pc stands one such step is possible.
Advance == pc' \in {"idle", "adjust6", "move4", "move6", "ret"} \ {pc}

SpecRecover ==
    /\ InitLive /\ [][NextRecover]_vars
    /\ SF_vars(Tick)
    /\ \A type \in Types : SF_vars(Propagate(type))
    /\ WF_pc(Advance)

-----------------------------------------------------------------------------
(* main and its ticker (aw.go:436-448).  The ticker fires whenever it likes, also
   while watch() runs; its channel holds one tick: cyc.pending says a tick waits
   there.  main takes a tick only between two calls of watch(); a tick that waits
   when watch() returns starts the next cycle like one that fires then.  The API
   answers every call. *)

TickerFires(P) ==
    IF InWatch
    THEN /\ cyc' = [cyc EXCEPT !.pending = TRUE]
         /\ UNCHANGED <<store, dns, pc, since, faults>>
    ELSE watchBegin(P)

WatchReturnToTicker == watchReturn([NoCycle EXCEPT !.pending = cyc.pending])

NextMain ==
    \/ Tick
    \/ \E type \in Types : Propagate(type)
    \/ TickerFires(QuickProbes)
    \/ adjustIPv6(NoFault)
    \/ switchIPv4(NoFault)
    \/ switchIPv6(NoFault)
    \/ WatchReturnToTicker

SpecMain == Init /\ [][NextMain]_vars

-----------------------------------------------------------------------------
(* isAddrEqual by itself: three address strings, empty, not addresses, addresses,
   some of them two spellings of one address; cyc holds the strings and, after
   the comparisons, their results. *)

AddrStrings ==
    {"", "not an address", "10.0.0.256", "1.2.3.4", "10.0.0.11", "::ffff:10.0.0.11",
     "10.0.0.12", "2001:db8::1", "2001:db8:0::2", "2001:db8::2"}

InitAddr ==
    /\ store = ZoneOf(Rec("10.0.0.11"), <<>>)
    /\ dns = [v4 |-> Published(store, "A"), v6 |-> Published(store, "AAAA")]
    /\ pc = "idle"
    /\ \E left, right, other \in AddrStrings :
        cyc = [left |-> left, right |-> right, other |-> other, equal |-> <<>>]
    /\ since = [type \in Types |-> Window]
    /\ faults = 0

Compare ==
    /\ pc = "idle"
    /\ pc' = "ret"
    /\ cyc' = [cyc EXCEPT !.equal =
                  [ll |-> isAddrEqual(cyc.left, cyc.left),
                   lr |-> isAddrEqual(cyc.left, cyc.right),
                   rl |-> isAddrEqual(cyc.right, cyc.left),
                   ro |-> isAddrEqual(cyc.right, cyc.other),
                   lo |-> isAddrEqual(cyc.left, cyc.other)]]
    /\ UNCHANGED <<store, dns, since, faults>>

NextAddr == Compare

SpecAddr == InitAddr /\ [][NextAddr]_vars

-----------------------------------------------------------------------------
(* Properties of the decision (SpecDecide) *)

NodeIds == 1..Len(Nodes)

\* A cycle has probed the nodes (its IPv4 lookup did not fail).
Probed == cyc.probes # <<>>

\* Node i is healthy in the running cycle.
Healthy(i) == cyc.probes[i].ok

\* Node i serves the advertised IPv4.
Acting(i) == isAddrEqual(Nodes[i].ip, cyc.actualIP)

\* The calls the running cycle has made for one record type.
CallsFor(type) == {k \in 1..Len(cyc.calls) : cyc.calls[k].type = type}

\* C1: in a cycle in which a node that address-equals the advertised IPv4 is
\* healthy, no A-record reconcile is issued, whatever the health and latency of
\* the other nodes.
C1_NoSwitchWhileActingHealthy ==
    (Probed /\ \E i \in NodeIds : Acting(i) /\ Healthy(i)) => CallsFor("A") = {}

\* C1 witness: a finished cycle with the acting node healthy and another healthy
\* node faster than it, and no A-record call.
C1_Witness ==
    /\ pc = "ret" /\ Probed /\ CallsFor("A") = {}
    /\ \E i, j \in NodeIds :
        /\ Acting(i) /\ Healthy(i) /\ ~Acting(j) /\ Healthy(j)
        /\ cyc.probes[j].latency < cyc.probes[i].latency

\* C2 (as claimed): in a cycle in which every probe is unhealthy no reconcile is
\* issued for either family.
C2_NoReconcileWhenAllDown ==
    (Probed /\ \A i \in NodeIds : ~Healthy(i)) => cyc.calls = <<>>

\* The healthy nodes other than the acting node.
Others == {i \in NodeIds : Healthy(i) /\ ~Acting(i)}

\* j is, among the set S of nodes, the first of those with the lowest latency.
FirstFastest(j, S) ==
    /\ j \in S
    /\ \A i \in S : \/ cyc.probes[j].latency < cyc.probes[i].latency
                    \/ cyc.probes[j].latency = cyc.probes[i].latency /\ j <= i

\* C3: the target of every IPv4 switch is the ipv4 of the healthy node other than
\* the acting node with the lowest latency, the first in node order on a tie.
C3_SwitchTargetsFirstFastest ==
    \A k \in CallsFor("A") :
        \E j \in Others : FirstFastest(j, Others) /\ cyc.calls[k].target = Nodes[j].ip

\* C3 witness: an IPv4 switch made with two healthy candidates, the later one the
\* faster, and one made on a tie are both cases of the run; this is the first.
C3_Witness ==
    /\ CallsFor("A") # {}
    /\ \E i, j \in Others : i < j /\ cyc.probes[j].latency < cyc.probes[i].latency

\* C4 (as claimed): a cycle in which no healthy node serves the advertised IPv4 and
\* some other node is healthy switches IPv4 to a healthy node, whatever latency
\* the healthy probes report.
C4_SwitchWhenOtherHealthy ==
    (pc = "ret" /\ Probed /\ Others # {} /\ ~\E i \in NodeIds : Acting(i) /\ Healthy(i))
        => \E k \in CallsFor("A"), j \in Others : cyc.calls[k].target = Nodes[j].ip

-----------------------------------------------------------------------------
(* Properties of the record synchronizer over time (Spec) *)

CallIds == 1..Len(cyc.calls)

\* The write of one record was applied by the zone.
Applied(op) == op.out \in {"ok", "lost"}

\* The write of one record got a response the program could read.
Answered(op) == op.out \in {"ok", "echo"}

\* The write of one record failed: an error of the API, or a create or update
\* whose echoed content does not address-equal the requested target.
Failed(op, target) ==
    \/ op.out \in {"fail", "lost"}
    \/ op.op \in {"create", "update"} /\ Answered(op) /\ ~isAddrEqual(op.echo, target)

OpIds(c) == 1..Len(c.ops)

\* C5: a reconcile, of either family, that finds records and has a non-empty
\* target issues no update and returns an error whenever the anchor record as
\* loaded in that call was modified less than 10 minutes before.
C5_CooldownBlocksUpdate ==
    \A k \in CallIds :
        LET c == cyc.calls[k]
        IN  (c.loaded = "found" /\ c.target # "" /\ c.anchor.age < Window)
                => c.err # "" /\ c.ops = <<>>

\* C5 witness: one cycle in which the A switch and the AAAA switch were both
\* refused for an anchor record modified less than 10 minutes before.
C5_Witness ==
    \A type \in Types :
        \E k \in CallsFor(type) :
            /\ cyc.calls[k].loaded = "found" /\ cyc.calls[k].target # ""
            /\ cyc.calls[k].anchor.age < Window
            /\ cyc.calls[k].err = "recent"

\* C6 (as claimed): for each family, a reconcile that changes the published
\* records (create, update or delete) is never applied less than 10 minutes after
\* the previous one that did.
C6_SwitchingRateCapped ==
    [][\A type \in Types :
          Contents(store', type) # Contents(store, type) => since[type] >= Window]_vars

\* The step makes a call that applies an update of the anchor record of a type.
AnchorUpdated(type) ==
    /\ Len(cyc'.calls) = Len(cyc.calls) + 1
    /\ LET c == cyc'.calls[Len(cyc'.calls)]
       IN  /\ c.type = type
           /\ \E i \in OpIds(c) :
                c.ops[i].op = "update" /\ c.ops[i].name = "@" /\ Applied(c.ops[i])

\* C6 (amended): the window caps updates only, through the anchor record: an
\* update of a family's anchor record is applied only when that record was last
\* modified (created or updated) at least 10 minutes before.
C6_AnchorUpdatesWindowApart ==
    [][\A type \in Types :
          AnchorUpdated(type) => Head(store[type]["@"]).age >= Window]_vars

\* C6 witness: an update of the AAAA anchor record, which aw created itself, has
\* been applied: the second change of the published AAAA records.
C6_Witness ==
    \E k \in CallsFor("AAAA") :
        /\ cyc.calls[k].anchor.age >= Window
        /\ \E i \in OpIds(cyc.calls[k]) :
            LET op == cyc.calls[k].ops[i]
            IN  op.op = "update" /\ op.name = "@" /\ Applied(op)

\* C7: an A reconcile with a non-empty source that does not address-equal the
\* content of the anchor record it loaded issues no write and returns an error
\* that carries the anchor record's content.
C7_StatedSourceChecked ==
    \A k \in CallsFor("A") :
        LET c == cyc.calls[k]
        IN  (c.loaded = "found" /\ c.source # "" /\ ~isAddrEqual(c.anchor.content, c.source))
                => c.ops = <<>> /\ c.err = "stated" /\ c.detail = c.anchor.content

\* C7 witness: the resolver still gave the address the zone no longer holds, and
\* the A switch was refused.
C7_Witness ==
    \E k \in CallsFor("A") :
        /\ cyc.calls[k].err = "stated"
        /\ cyc.calls[k].source # "" /\ cyc.calls[k].detail # cyc.calls[k].source
        /\ cyc.calls[k].detail = Head(store["A"]["@"]).content

\* C8: when the content echoed for a create or an update does not address-equal
\* the requested target, the reconcile returns an error that names the echoed
\* value; it does not return success.
C8_EchoMismatchIsError ==
    \A k \in CallIds :
        LET c == cyc.calls[k]
        IN  \A i \in OpIds(c) :
                (c.ops[i].op \in {"create", "update"} /\ Answered(c.ops[i])
                    /\ ~isAddrEqual(c.ops[i].echo, c.target))
                    => c.err = "verify" /\ c.detail = c.ops[i].echo

\* C8 witness: an update was answered with the record's old content, after the
\* update of another name had been verified.
C8_Witness ==
    \E k \in CallIds :
        LET c == cyc.calls[k]
        IN  /\ Len(c.ops) = 2 /\ c.ops[2].op = "update" /\ c.ops[2].out = "echo"
            /\ c.ops[1].out = "ok"
            /\ c.err = "verify" /\ c.detail = c.ops[2].echo /\ c.detail # ""

\* C9: a reconcile returns success only if the operation on every name
\* succeeded: a failed create, update or delete of any name makes it return an
\* error, whatever happened to the other names and in whatever order.
C9_NoMaskedFailure ==
    \A k \in CallIds :
        LET c == cyc.calls[k]
        IN  /\ (\E i \in OpIds(c) : Failed(c.ops[i], c.target)) => c.err # ""
            /\ (c.err = "" /\ c.ops # <<>>) =>
                    \A n \in NameSet :
                        \E i \in OpIds(c) :
                            c.ops[i].name = n /\ ~Failed(c.ops[i], c.target)

\* C9 witness: the map gave "www" first, its update succeeded, the update of "@"
\* failed, and the reconcile returned an error.
C9_Witness ==
    \E k \in CallIds :
        LET c == cyc.calls[k]
        IN  /\ Len(c.ops) = 2 /\ c.ops[1].name = "www" /\ c.ops[1].op = "update"
            /\ ~Failed(c.ops[1], c.target) /\ Failed(c.ops[2], c.target)
            /\ c.err # ""

\* The step makes a call that ends with an error of the API.
TransportError(type) ==
    /\ Len(cyc'.calls) = Len(cyc.calls) + 1
    /\ cyc'.calls[Len(cyc'.calls)].type = type
    /\ cyc'.calls[Len(cyc'.calls)].err = "transport"

\* C10 (as claimed): a reconcile that ends with a transport or authentication
\* error leaves every record of its family as it was before the reconcile, at
\* whichever request the error occurs.
C10_ErrorLeavesRecordsUntouched ==
    [][\A type \in Types : TransportError(type) => store'[type] = store[type]]_vars

-----------------------------------------------------------------------------
(* Properties of the cycle: lookups, families, the AAAA records *)

\* C11 (as claimed): a cycle in which a lookup of the domain failed, for IPv4 or
\* for IPv6, makes no call to the record store.
C11_LookupFailureAbortsCycle ==
    cyc.lookup \in {"failed", "ipv6 failed"} => cyc.calls = <<>>

\* C12: a finished cycle whose acting node i is healthy has made an AAAA
\* reconcile if and only if the ipv6 of i does not address-equal the IPv6 address
\* the cycle resolved; the target of that reconcile is the ipv6 of i (empty to
\* remove the AAAA records), and the cycle has made no A reconcile.
C12_AdjustsIPv6OfActingNode ==
    \A i \in NodeIds :
        (pc = "ret" /\ Probed /\ Acting(i) /\ Healthy(i)) =>
            /\ CallsFor("A") = {}
            /\ CallsFor("AAAA") # {} <=> ~isAddrEqual(Nodes[i].ipv6, cyc.actualIPv6)
            /\ Cardinality(CallsFor("AAAA")) <= 1
            /\ \A k \in CallsFor("AAAA") : cyc.calls[k].target = Nodes[i].ipv6

\* C12 witness: the acting node is healthy and has no ipv6, the domain has one:
\* the cycle removed the AAAA records and left the A records alone.
C12_Witness ==
    /\ pc = "ret" /\ Probed /\ cyc.actualIPv6 # ""
    /\ \E i \in NodeIds : Acting(i) /\ Healthy(i) /\ Nodes[i].ipv6 = ""
    /\ \E k \in CallsFor("AAAA") :
        /\ cyc.calls[k].target = "" /\ cyc.calls[k].err = ""
        /\ \A i \in OpIds(cyc.calls[k]) : cyc.calls[k].ops[i].op = "delete"
        /\ Len(cyc.calls[k].ops) = N
    /\ CallsFor("A") = {}

\* A call has changed the zone.
Wrote(c) == \E i \in OpIds(c) : Applied(c.ops[i])

\* C13 (as claimed): in a cycle that elects a new node, the AAAA records are
\* created, updated or deleted for the elected node only together with the A
\* records being moved to it: only if the A reconcile of that cycle succeeded.
C13_FamiliesSwitchTogether ==
    (cyc.selectedNode = "" /\ cyc.minNode # "") =>
        \A k \in CallsFor("AAAA") :
            Wrote(cyc.calls[k]) => \E a \in CallsFor("A") : cyc.calls[a].err = ""

\* The writes of call c are all of one kind; a call that returned nil has made
\* exactly one for every name.
AllOps(c, kind) ==
    /\ c.ops # <<>>
    /\ \A i \in OpIds(c) : c.ops[i].op = kind
    /\ \A i, j \in OpIds(c) : c.ops[i].name = c.ops[j].name => i = j
    /\ c.err = "" => {c.ops[i].name : i \in OpIds(c)} = NameSet

\* The zone holds for name n an AAAA record whose content is the address ip.
HoldsIPv6(n, ip) ==
    \E r \in 1..Len(store["AAAA"][n]) : isAddrEqual(store["AAAA"][n][r].content, ip)

\* C14: what an AAAA reconcile does to the zone is fixed by what its load found
\* and by its target: nothing found and a target, it creates a record with the
\* target as content for every name; nothing found and no target, it writes
\* nothing; records found and a target, it updates every loaded record unless the
\* anchor record is younger than 10 minutes; records found and no target, it
\* deletes every loaded record, however young the anchor record is.
C14_OperationByLoadAndTarget ==
    \A k \in CallsFor("AAAA") :
        LET c == cyc.calls[k]
        IN  /\ c.loaded = "none" => c.ops = <<>> /\ c.err # ""
            /\ (c.loaded = "notfound" /\ c.target # "") =>
                    /\ AllOps(c, "create")
                    /\ c.err = "" => \A n \in NameSet : HoldsIPv6(n, c.target)
            /\ (c.loaded = "notfound" /\ c.target = "") => c.ops = <<>> /\ c.err = ""
            /\ (c.loaded = "found" /\ c.target # "") =>
                    IF c.anchor.age < Window
                    THEN c.ops = <<>> /\ c.err = "recent"
                    ELSE /\ AllOps(c, "update")
                         /\ c.err = "" =>
                                \A n \in NameSet :
                                    isAddrEqual(Head(store["AAAA"][n]).content, c.target)
            /\ (c.loaded = "found" /\ c.target = "") => AllOps(c, "delete")

\* C14 witness: the AAAA records, made by the cycle before, are deleted for
\* every name while the anchor record is younger than 10 minutes.
C14_Witness ==
    \E k \in CallsFor("AAAA") :
        LET c == cyc.calls[k]
        IN  /\ c.loaded = "found" /\ c.target = "" /\ c.anchor.age < Window
            /\ c.err = "" /\ Len(c.ops) = N
            /\ \A n \in NameSet : store["AAAA"][n] = <<>>

-----------------------------------------------------------------------------
(* Properties of sequences of reconciles (SpecReconcile) *)

\* The step is a call of moveRecords or moveRecordsIPv6 for the type.
Reconciles(type) ==
    /\ Len(cyc'.calls) = Len(cyc.calls) + 1
    /\ cyc'.calls[Len(cyc'.calls)].type = type

\* The call the step makes.
TheCall == cyc'.calls[Len(cyc'.calls)]

\* The zone st holds no AAAA record for any name.
NoIPv6(st) == \A n \in NameSet : st["AAAA"][n] = <<>>

\* The zone st holds exactly one AAAA record for every name, with content ip.
OneIPv6(st, ip) ==
    \A n \in NameSet :
        Len(st["AAAA"][n]) = 1 /\ isAddrEqual(st["AAAA"][n][1].content, ip)

\* C15: a successful AAAA reconcile with a target, on a zone without AAAA
\* records, creates (does not update) and leaves one record per name holding the
\* target; a successful one with no target, on a zone with one AAAA record per
\* name, deletes them all.  So create, delete, create again ends with exactly one
\* record per name.
C15_Lifecycle ==
    [][(Reconciles("AAAA") /\ TheCall.err = "") =>
          /\ (NoIPv6(store) /\ TheCall.target # "") =>
                /\ TheCall.loaded = "notfound"
                /\ Len(TheCall.ops) = N
                /\ \A i \in OpIds(TheCall) : TheCall.ops[i].op = "create"
                /\ OneIPv6(store', TheCall.target)
          /\ ((\E ip \in TargetsIPv6 : OneIPv6(store, ip)) /\ TheCall.target = "") =>
                /\ Len(TheCall.ops) = N
                /\ \A i \in OpIds(TheCall) : TheCall.ops[i].op = "delete"
                /\ NoIPv6(store')]_vars

\* C15 witness: the three calls of the lifecycle have been made, each returned
\* nil, and the zone holds one AAAA record per name with the last target.
C15_Witness ==
    /\ Len(cyc.calls) = 3
    /\ \A k \in 1..3 : cyc.calls[k].type = "AAAA" /\ cyc.calls[k].err = ""
    /\ cyc.calls[1].loaded = "notfound" /\ cyc.calls[1].target # ""
    /\ cyc.calls[2].loaded = "found" /\ cyc.calls[2].target = ""
    /\ cyc.calls[3].loaded = "notfound" /\ cyc.calls[3].target # ""
    /\ \A k \in {1, 3} : \A i \in OpIds(cyc.calls[k]) : cyc.calls[k].ops[i].op = "create"
    /\ OneIPv6(store, cyc.calls[3].target)

\* Some record of the type was written less than 10 minutes ago.  After a call
\* that wrote the records of every name this is: less than 10 minutes have passed
\* since that call.
Young(type) ==
    \E n \in NameSet : \E r \in 1..Len(store[type][n]) : store[type][n][r].age < Window

\* The call made before the step's.
ThePrevious == cyc.calls[Len(cyc.calls)]

\* C16 (as claimed): a reconcile that follows, less than 10 minutes later, a
\* successful reconcile of the same family with the same non-empty target
\* returns an error and issues no create and no update.
C16_SecondCallRefused ==
    [][\A type \in Types :
          (/\ Reconciles(type) /\ cyc.calls # <<>>
           /\ ThePrevious.type = type /\ ThePrevious.err = ""
           /\ ThePrevious.target # "" /\ ThePrevious.target = TheCall.target
           /\ Young(type))
          => TheCall.err # "" /\ TheCall.ops = <<>>]_vars

-----------------------------------------------------------------------------
(* Failover in the end (SpecLive) *)

\* The A record of every name holds the address of a node that is up.
OnHealthyNode ==
    \A n \in NameSet :
        /\ store["A"][n] # <<>>
        /\ \E i \in NodeIds :
            cyc.probes[i].ok /\ isAddrEqual(Head(store["A"][n]).content, Nodes[i].ip)

\* C17 (as claimed): with the advertised node down for good, another node up for
\* good, the API and the resolver answering and cycles going on, the A record of
\* every name comes to hold the address of a node that is up.
C17_FailoverInTheEnd == <>OnHealthyNode

\* Some node that is up answers in less than cfg.timeout.
SomeQuick == \E i \in NodeIds : cyc.probes[i].ok /\ cyc.probes[i].latency < Timeout

\* Where a node that is up answers in less than cfg.timeout, failover comes.
FailoverWhenQuick == SomeQuick => <>OnHealthyNode

-----------------------------------------------------------------------------
(* One cycle at a time (SpecMain) *)

\* The steps of one cycle after its start, in their order.
CycleOrder ==
    {<<"adjust6", "move4">>, <<"move4", "move6">>, <<"move6", "ret">>, <<"ret", "idle">>}

\* C18: at most one cycle is in progress: while a cycle runs, every step that
\* moves it is its own next step, up to its return, and a tick of the ticker in
\* that time starts no cycle: it leaves the zone and the running cycle as they
\* are.
C18_OneCycleAtATime ==
    [][pc # "idle" =>
          /\ pc' # pc => <<pc, pc'>> \in CycleOrder
          /\ pc' = pc => store' = store /\ cyc'.calls = cyc.calls
                            /\ cyc'.probes = cyc.probes]_vars

\* C18 witness: a tick arrived while the cycle was running; the cycle went on and
\* made its reconcile, the tick waits.
C18_Witness ==
    /\ pc = "ret" /\ cyc.pending
    /\ \E k \in CallIds : Wrote(cyc.calls[k])

-----------------------------------------------------------------------------
(* Address equality (SpecAddr) *)

\* The string is an address.
Parsable(x) == ParseIP(x) # NilIP

\* C19: isAddrEqual is an equivalence on address strings: reflexive, the same in
\* both orders of its arguments, transitive; strings that are no addresses (the
\* empty one among them) are equal to each other and to no address, and two
\* addresses are equal exactly when they are one IP address.
C19_AddrEqualIsEquivalence ==
    pc = "ret" =>
        LET l == cyc.left
            r == cyc.right
            e == cyc.equal
        IN  /\ e.ll
            /\ e.lr = e.rl
            /\ (e.lr /\ e.ro) => e.lo
            /\ (~Parsable(l) /\ ~Parsable(r)) => e.lr
            /\ (Parsable(l) # Parsable(r)) => ~e.lr
            /\ (Parsable(l) /\ Parsable(r)) => (e.lr <=> ParseIP(l) = ParseIP(r))
            /\ (l = "" /\ r = "") => e.lr
            /\ (l = "" /\ r = "1.2.3.4") => ~e.lr /\ ~e.rl

\* C19 witness: two spellings of one address are equal, and neither is equal to
\* the empty string.
C19_Witness ==
    /\ pc = "ret"
    /\ cyc.left = "2001:db8:0::2" /\ cyc.right = "2001:db8::2" /\ cyc.equal.lr
    /\ cyc.other = "" /\ ~cyc.equal.lo

-----------------------------------------------------------------------------
(* What not found means (Spec) *)

\* C20 (as claimed): the load of an AAAA reconcile reports not found, and the
\* reconcile creates records, only when the zone holds no AAAA record for any of
\* the names.
C20_NotFoundMeansNoRecord ==
    [][(Reconciles("AAAA") /\ TheCall.loaded = "notfound") => NoIPv6(store)]_vars

-----------------------------------------------------------------------------
(* The zone after failed writes (Spec) *)

\* C21 (as claimed): whatever reconciles were made and whichever of them failed
\* midway, the zone holds at most one record for every name and type.
C21_OneRecordPerName ==
    \A type \in Types : \A n \in NameSet : Len(store[type][n]) <= 1

-----------------------------------------------------------------------------
(* Calls and writes of one cycle (Spec) *)

\* C22: a cycle makes at most one A reconcile and at most one AAAA reconcile; a
\* reconcile issues at most one write for a name, and after a write that failed
\* it issues none: nothing is tried again in the cycle.
C22_OneCallOneWrite ==
    /\ \A type \in Types : Cardinality(CallsFor(type)) <= 1
    /\ \A k \in CallIds :
        LET c == cyc.calls[k]
        IN  /\ \A i, j \in OpIds(c) : c.ops[i].name = c.ops[j].name => i = j
            /\ \A i \in OpIds(c) : Failed(c.ops[i], c.target) => i = Len(c.ops)
            /\ c.loaded = "none" => c.ops = <<>>

\* C22 witness: a finished cycle that made one reconcile for each type; the A
\* reconcile failed at its first write and wrote no other name.
C22_Witness ==
    /\ pc = "ret"
    /\ \A type \in Types : Cardinality(CallsFor(type)) = 1
    /\ \E k \in CallsFor("A") :
        /\ Len(cyc.calls[k].ops) = 1
        /\ Failed(cyc.calls[k].ops[1], cyc.calls[k].target)
        /\ cyc.calls[k].err # ""

-----------------------------------------------------------------------------
(* The cooldown and the names other than the anchor (Spec) *)

\* C23: the cooldown test reads the anchor record only.  A reconcile that found
\* records and has a target makes no update when the anchor record is younger
\* than 10 minutes, whatever the age of the other records; when the anchor
\* record is 10 minutes old or more (and, for A, the stated source is the
\* anchor's) it issues the updates, whatever the age of the other records, and if
\* it returns nil it has updated every name.
C23_CooldownReadsAnchorOnly ==
    \A k \in CallIds :
        LET c == cyc.calls[k]
        IN  (c.loaded = "found" /\ c.target # "") =>
                IF c.anchor.age < Window
                THEN c.ops = <<>> /\ c.err # ""
                ELSE c.err # "stated" =>
                        /\ AllOps(c, "update")
                        /\ c.err = "" =>
                              \A n \in NameSet :
                                  \E i \in OpIds(c) :
                                      c.ops[i].name = n /\ ~Failed(c.ops[i], c.target)

\* C23 witness: the anchor record was 10 minutes old or more, the record of
\* another name was younger than that, and this record was updated too.
C23_Witness ==
    \E k \in CallIds :
        LET c == cyc.calls[k]
        IN  /\ c.loaded = "found" /\ c.anchor.age >= Window /\ c.err = ""
            /\ \E i \in OpIds(c) :
                /\ c.ops[i].op = "update" /\ c.ops[i].name # "@"
                /\ c.ops[i].was.age < Window /\ Applied(c.ops[i])

\* The other case: the anchor record is younger than 10 minutes, the record of
\* another name is not, and the reconcile has updated neither.
RefusedThoughOtherIsOld ==
    \E k \in CallsFor("A") :
        /\ cyc.calls[k].err = "recent" /\ cyc.calls[k].ops = <<>>
        /\ Head(store["A"]["@"]).age < Window
        /\ Head(store["A"]["www"]).age >= Window

-----------------------------------------------------------------------------
(* The A records are only ever updated (SpecDecide) *)

\* Some configured name has no A record in the zone st.
LacksIPv4(st) == \E n \in NameSet : st["A"][n] = <<>>

\* C24: no step creates or deletes an A record or leaves one with an empty
\* address; an A-record reconcile has a non-empty target and issues updates only;
\* and when some configured name has no A record the reconcile returns an error,
\* issues no write and leaves the zone as it was.
C24_OnlyUpdatesIPv4 ==
    [][/\ \A n \in NameSet :
            /\ Len(store'["A"][n]) = Len(store["A"][n])
            /\ \A k \in 1..Len(store'["A"][n]) : store'["A"][n][k].content # ""
       /\ Reconciles("A") =>
            /\ TheCall.target # ""
            /\ \A i \in OpIds(TheCall) : TheCall.ops[i].op = "update"
            /\ LacksIPv4(store) =>
                    /\ TheCall.err # ""
                    /\ TheCall.ops = <<>>
                    /\ store' = store]_vars

\* C24 witness: the cycle has called moveRecords on a zone in which a configured
\* name has no A record; the call returned errNotFound and wrote nothing.
C24_Witness ==
    /\ LacksIPv4(store)
    /\ \E k \in CallsFor("A") :
        /\ cyc.calls[k].err = "notfound"
        /\ cyc.calls[k].target # ""
        /\ cyc.calls[k].ops = <<>>

-----------------------------------------------------------------------------
(* Recovery from a partial write (SpecRecover) *)

\* Every name has a record of the type, and two names hold different addresses.
Split(type) ==
    /\ \A n \in NameSet : store[type][n] # <<>>
    /\ \E n, m \in NameSet :
        ~isAddrEqual(Head(store[type][n]).content, Head(store[type][m]).content)

\* Every name has a record of the type, and all hold the same address.
Unified(type) ==
    /\ \A n \in NameSet : store[type][n] # <<>>
    /\ \A n, m \in NameSet :
        isAddrEqual(Head(store[type][n]).content, Head(store[type][m]).content)

\* No API call fails any more.
FaultsOver == faults = MaxFaults

\* C25 (as claimed): once an update has failed part-way, so that the names hold
\* different addresses of one family, and no API call fails any more, with cycles
\* going on the records of all names of that family come to hold one address.
C25_PartialWriteRecovers ==
    \A type \in Types : (Split(type) /\ FaultsOver) ~> Unified(type)

\* The anchor record is still on the node that is down: the write that failed
\* was the anchor's, the other name has been moved.
AnchorLeftBehind ==
    /\ Split("A")
    /\ \E i \in NodeIds :
        /\ ~cyc.probes[i].ok
        /\ isAddrEqual(Head(store["A"]["@"]).content, Nodes[i].ip)

\* Where the anchor is the record left behind and some node that is up answers in
\* less than cfg.timeout, the next A reconcile moves every name.
RecoversWhenAnchorLeftBehind ==
    (AnchorLeftBehind /\ FaultsOver /\ SomeQuick) ~> Unified("A")

\* The partial write whose anchor was left behind, after the last failure.
AnchorLeftBehindSeen == AnchorLeftBehind /\ FaultsOver /\ SomeQuick /\ pc = "idle"

====
